---- MODULE Spec2Model ----
(***************************************************************************)
(* PltToy2dac (TOY2DAC_marm/utils_plotting_toy2dac.py): the frequency to   *)
(* time conversion freq2time, the HDF5 container it writes into datadir,   *)
(* and the plot / spectrum readers that consume the container.             *)
(*                                                                         *)
(* Arrays are functions on 0..n-1 (numpy indexing).  Frequencies are       *)
(* integers (Hz), so that fmax / dfreq is an exact quotient and int() is   *)
(* truncation of it.  Complex samples are records [re, im] of integers.    *)
(* The Ricker factor and the FFT output are transcendental; they are kept  *)
(* as terms that record which frequency bin / time sample they belong to.  *)
(***************************************************************************)
EXTENDS Integers, FiniteSets, TLC

VARIABLES freqlist, zsrc, zrec, store, last

vars == <<freqlist, zsrc, zrec, store, last>>

(***************************************************************************)
(* Bounds of the model.                                                    *)
(***************************************************************************)
MaxQ == 2
MaxDf == 3
MaxNfreq == 3
MaxSrc == 2
MaxRec == 2
MaxDepthLen == 3
MaxDepth == 2

(***************************************************************************)
(* numpy helpers.                                                          *)
(***************************************************************************)
Size(a) == Cardinality(DOMAIN a)

Abs(x) == IF x < 0 THEN -x ELSE x

\* The array holding the elements of a tuple.
Arr(s) == [i \in 0..(Cardinality(DOMAIN s) - 1) |-> s[i + 1]]

ArrMax(a) == CHOOSE m \in {a[i] : i \in DOMAIN a} : \A i \in DOMAIN a : a[i] <= m

\* Python int(a / b) for b > 0: truncation toward zero.
IntDiv(a, b) == IF a >= 0 THEN a \div b ELSE -((-a) \div b)

RECURSIVE Gcd(_, _)
Gcd(a, b) == IF b = 0 THEN a ELSE Gcd(b, a % b)

\* The value of the float quotient a / b, as a fraction in lowest terms.
Frac(a, b) == [num |-> a \div Gcd(a, b), den |-> b \div Gcd(a, b)]

Zero == [re |-> 0, im |-> 0]

\* np.conj
Conj(z) == [re |-> z.re, im |-> -z.im]

\* np.arange(lo, hi)
Arange(lo, hi) == [i \in 0..(hi - lo - 1) |-> lo + i]

\* np.roll(a, shift): out[(i + shift) mod n] = a[i]
Roll(a, shift) == [i \in DOMAIN a |-> a[(i - shift) % Size(a)]]

\* The indices start:stop of a length-n axis select (Python slice, step 1).
SliceIdx(start, stop, n) ==
    LET norm(k) == IF k < 0 THEN (IF k + n < 0 THEN 0 ELSE k + n)
                   ELSE (IF k > n THEN n ELSE k)
    IN  [lo |-> norm(start), hi |-> norm(stop)]

SliceSize(start, stop, n) ==
    LET s == SliceIdx(start, stop, n)
    IN  IF s.hi > s.lo THEN s.hi - s.lo ELSE 0

\* a[start:stop, :, :] = src ; numpy broadcasts a source of one row, and
\* raises ValueError for any other row count that differs from the slice's.
SliceAssignOk(a, start, stop, src) ==
    \/ Size(src) = SliceSize(start, stop, Size(a))
    \/ Size(src) = 1

SliceAssign(a, start, stop, src) ==
    LET s == SliceIdx(start, stop, Size(a))
    IN  [i \in DOMAIN a |->
            IF i >= s.lo /\ i < s.hi
            THEN (IF Size(src) = 1 THEN src[0] ELSE src[i - s.lo])
            ELSE a[i]]

\* a[::-1]
Reversed(a) == [i \in DOMAIN a |-> a[Size(a) - 1 - i]]

\* np.conj, elementwise over the (source, receiver) plane of one frequency row.
ConjPlane(plane) ==
    [s \in DOMAIN plane |-> [r \in DOMAIN plane[s] |-> Conj(plane[s][r])]]

\* Faulty variant of the scan: an equal element replaces the running
\* minimum, so the last of equal minima is kept.
RECURSIVE ArgMinLastFrom(_, _, _)
ArgMinLastFrom(a, i, best) ==
    IF i >= Size(a) THEN best
    ELSE ArgMinLastFrom(a, i + 1, IF a[i] <= a[best] THEN i ELSE best)

\* np.argmin: one pass, the running minimum replaced only by a strictly
\* smaller element, so the first of equal minima is kept.
RECURSIVE ArgMinFrom(_, _, _)
ArgMinFrom(a, i, best) ==
    IF i >= Size(a) THEN best
    ELSE ArgMinFrom(a, i + 1, IF a[i] < a[best] THEN i ELSE best)

ArgMin(a) == ArgMinFrom(a, 1, 0)

\* PltToy2dac.get_id, and the inline np.argmin(np.abs(x - arr)) lookups.
get_id(x, xarr) == ArgMin([i \in DOMAIN xarr |-> Abs(x - xarr[i])])

(***************************************************************************)
(* The files of datadir that the solver wrote: flat complex64 arrays.      *)
(* "unit" and "ramp" hold nfreq*nsrc*nrec samples, "short" one fewer,      *)
(* "missing" does not exist.                                               *)
(***************************************************************************)
Files == {"unit", "ramp", "short", "missing"}

InputFile(fname, count) ==
    CASE fname = "unit"  -> [exists |-> TRUE,
                             data |-> [i \in 0..(count - 1) |-> [re |-> 1, im |-> 0]]]
      [] fname = "ramp"  -> [exists |-> TRUE,
                             data |-> [i \in 0..(count - 1) |-> [re |-> i + 1, im |-> i + 2]]]
      [] fname = "short" -> [exists |-> TRUE,
                             data |-> [i \in 0..(count - 2) |-> [re |-> 1, im |-> 0]]]
      [] OTHER           -> [exists |-> FALSE]

\* PltToy2dac.read_seis: np.fromfile raises FileNotFoundError for a missing
\* file, reshape raises ValueError when the element count is not
\* nfreq*nsrc*nrec; otherwise the row-major [nfreq, nsrc, nrec] tensor.
read_seis(fl, zs, zr, fname) ==
    LET nfreq == Size(fl)
        nsrc  == Size(zs)
        nrec  == Size(zr)
        file  == InputFile(fname, nfreq * nsrc * nrec)
    IN  IF ~file.exists
        THEN [outcome |-> "FileNotFoundError", line |-> 70]
        ELSE IF Size(file.data) # nfreq * nsrc * nrec
        THEN [outcome |-> "ValueError", line |-> 74]
        ELSE [outcome |-> "ok", line |-> 0,
              seis |-> [k \in 0..(nfreq - 1) |->
                          [s \in 0..(nsrc - 1) |->
                             [r \in 0..(nrec - 1) |->
                                file.data[(k * nsrc + s) * nrec + r]]]]]

(***************************************************************************)
(* freq2time, lines 121-138.                                               *)
(***************************************************************************)
\* dfreq = self.freqlist[1] - self.freqlist[0]
DfreqOf(fl) == fl[1] - fl[0]

\* Faulty variant: Nhalf = round(fmax / dfreq), halves rounded up.
NhalfRounded(fl) == (2 * ArrMax(fl) + DfreqOf(fl)) \div (2 * DfreqOf(fl))

\* Nhalf = int(fmax / dfreq)
NhalfOf(fl) == IntDiv(ArrMax(fl), DfreqOf(fl))

\* N = 1 + 2 * Nhalf
NOf(fl) == 1 + 2 * NhalfOf(fl)

\* ind1 = int(self.freqlist[0] / dfreq)
Ind1Of(fl) == IntDiv(fl[0], DfreqOf(fl))

\* ind2 = Nhalf + 1
Ind2Of(fl) == NhalfOf(fl) + 1

\* Faulty variant: the bin numbers, not scaled by dfreq.
FreqAxisUnscaled(dfreq, Nhalf) ==
    [i \in 0..(2 * Nhalf) |-> Roll(Arange(-Nhalf, Nhalf + 1), -Nhalf)[i]]

\* f = dfreq * np.roll(np.arange(-Nhalf, Nhalf + 1), -Nhalf)
FreqAxis(dfreq, Nhalf) ==
    [i \in 0..(2 * Nhalf) |-> dfreq * Roll(Arange(-Nhalf, Nhalf + 1), -Nhalf)[i]]

\* The stop index of the slice that receives the conjugated half (line 130).
MirrorStop(ind1) == -ind1 + 1

\* Faulty variant: an array that is not cleared (np.empty), here all ones.
Uninitialised(N, nsrc, nrec) ==
    [i \in 0..(N - 1) |->
        [s \in 0..(nsrc - 1) |-> [r \in 0..(nrec - 1) |-> [re |-> 1, im |-> 0]]]]

\* np.zeros((N, nsrc, nrec))
Zeros(N, nsrc, nrec) ==
    [i \in 0..(N - 1) |-> [s \in 0..(nsrc - 1) |-> [r \in 0..(nrec - 1) |-> Zero]]]

\* One sample times the Ricker factor 2/sqrt(pi) f^2/fc^3 exp(-(f/fc)^2 +
\* i 2 pi f delay): zero at f = 0 and for a zero sample, otherwise the
\* product, kept as the term naming the frequency the factor is taken at.
RickerMul(fi, fc, delay, x) ==
    IF fi = 0 \/ x = Zero THEN Zero
    ELSE [ricker |-> [f |-> fi, fc |-> fc, delay |-> delay], x |-> x]

\* Lines 133-137: datafft[:, i, j] = ricker_delay * datafft[:, i, j]
ApplyRicker(datafft, f, fc, delay) ==
    [i \in DOMAIN datafft |->
        [s \in DOMAIN datafft[i] |->
            [r \in DOMAIN datafft[i][s] |->
                RickerMul(f[i], fc, delay, datafft[i][s][r])]]]

\* Line 138: datat = -real(1/N * dfreq * fftn(datafft, s=[N], axes=[0])).
\* Sample t of trace (s, r) is the term naming t, the trace and the scale.
Fftn(datafft, N, nsrc, nrec, dfreq) ==
    [t \in 0..(N - 1) |->
       [s \in 0..(nsrc - 1) |->
          [r \in 0..(nrec - 1) |->
             [t |-> t, src |-> s, rec |-> r, scale |-> Frac(dfreq, N)]]]]

\* Lines 119-147 up to the point where the container is opened: the locals
\* of the call, or the exception and the line that raised it.
Freq2TimeRun(fl, zs, zr, fname, fc, delay_n_period) ==
    LET rd == read_seis(fl, zs, zr, fname)
    IN  IF rd.outcome # "ok" THEN rd
        ELSE
        LET dataf  == rd.seis
            nsrc   == Size(zs)
            nrec   == Size(zr)
            dfreq  == DfreqOf(fl)
            Nhalf  == NhalfOf(fl)
            N      == NOf(fl)
            f      == FreqAxis(dfreq, Nhalf)
            ind1   == Ind1Of(fl)
            ind2   == Ind2Of(fl)
            dims   == [dfreq |-> dfreq, Nhalf |-> Nhalf, N |-> N, f |-> f,
                       ind1 |-> ind1, ind2 |-> ind2]
            z0     == Zeros(N, nsrc, nrec)
            z1     == SliceAssign(z0, ind1, ind2, dataf)
            mirror == [k \in DOMAIN dataf |-> ConjPlane(Reversed(dataf)[k])]
            z2     == SliceAssign(z1, ind2, MirrorStop(ind1), mirror)
            delay  == Frac(delay_n_period, fc)
            z3     == ApplyRicker(z2, f, fc, delay)
            specsl == SliceIdx(ind1, ind2, N)
        IN  IF ~SliceAssignOk(z0, ind1, ind2, dataf)
            THEN [outcome |-> "ValueError", line |-> 129, dims |-> dims]
            ELSE IF ~SliceAssignOk(z1, ind2, MirrorStop(ind1), mirror)
            THEN [outcome |-> "ValueError", line |-> 130, dims |-> dims]
            ELSE [outcome |-> "ok", line |-> 0, dims |-> dims,
                  reconstructed |-> z2, datafft |-> z3,
                  h5 |-> [exists |-> TRUE,
                          seismo |-> Fftn(z3, N, nsrc, nrec, dfreq),
                          fc |-> fc,
                          delay |-> delay,
                          spectrum |-> dataf,
                          seismo_spec |-> [k \in 0..(specsl.hi - specsl.lo - 1) |->
                                              z3[specsl.lo + k]],
                          freqlist |-> fl,
                          df |-> dfreq,
                          dt |-> Frac(1, dfreq * (N - 1))]]

(***************************************************************************)
(* The container <savename>.h5 in datadir.                                 *)
(***************************************************************************)
Absent == [exists |-> FALSE]

\* Faulty variant: the container is opened for writing before the input is
\* read, and a failed conversion removes what it opened.
StoreUnlinkOnFailure(st, savename, run) ==
    IF run.outcome = "ok" THEN [st EXCEPT ![savename] = run.h5]
    ELSE [st EXCEPT ![savename] = Absent]

\* Lines 139-147: h5py.File(..., 'w') is reached only after the conversion
\* has succeeded; an exception before it leaves datadir as it was.
StoreAfter(st, savename, run) ==
    IF run.outcome = "ok" THEN [st EXCEPT ![savename] = run.h5] ELSE st

\* Faulty variant: a reader that opens with mode 'w' clobbers the file.
OpenTruncating(st, fh5) == [st EXCEPT ![fh5] = Absent]

\* Lines 162, 203, 269, 305: h5py.File(..., 'r') leaves the file as it is.
OpenRead(st, fh5) == st

\* Faulty variant: the plot call regenerates without looking.
AlwaysConvert(st, fh5) == TRUE

\* Lines 160, 201, 267: if not os.path.exists(<fh5>.h5)
NeedsConversion(st, fh5) == ~st[fh5].exists

\* Lines 160-161 (201-202, 267-268): the conversion a plot call starts with.
Prelude(fl, zs, zr, st, fname, fh5, fc, delay_n_period) ==
    IF NeedsConversion(st, fh5)
    THEN LET run == Freq2TimeRun(fl, zs, zr, fname, fc, delay_n_period)
         IN  [converted |-> TRUE, outcome |-> run.outcome, line |-> run.line,
              store |-> StoreAfter(st, fh5, run)]
    ELSE [converted |-> FALSE, outcome |-> "ok", line |-> 0, store |-> st]

\* Lines 162-166, 203-206, 269-272: what a plot call reads from the container.
ReadPlot(h5, withFc) ==
    IF withFc
    THEN [seismo |-> h5.seismo, dt |-> h5.dt, delay |-> h5.delay, fc |-> h5.fc]
    ELSE [seismo |-> h5.seismo, dt |-> h5.dt, delay |-> h5.delay]

\* np.abs(tp - t) for t = (dt * np.arange(nt) - delay) * 1000 (lines 208,
\* 274), every entry scaled by the common denominator dt.den * delay.den.
TimeDistance(tp, nt, dt, delay) ==
    [k \in 0..(nt - 1) |->
       Abs(tp * dt.den * delay.den
           - 1000 * (k * dt.num * delay.den - delay.num * dt.den))]

\* Lines 212-213, 278-279: np.argmin(np.abs(t_plot[i] - t))
TimeIndex(tp, nt, dt, delay) == ArgMin(TimeDistance(tp, nt, dt, delay))

\* Lines 207-214 (273-280): the window of a gather / wiggle plot.
Window(rd, zs, zr, zsrc_plot, zrec_plot, t_plot) ==
    LET nt == Size(rd.seismo)
    IN  [idSrc  |-> get_id(zsrc_plot, zs),
         idRec0 |-> get_id(zrec_plot[1], zr),
         idRec1 |-> get_id(zrec_plot[2], zr),
         idt0   |-> TimeIndex(t_plot[1], nt, rd.dt, rd.delay),
         idt1   |-> TimeIndex(t_plot[2], nt, rd.dt, rd.delay)]

\* np.max of an empty selection raises ValueError (lines 217, 285).
WindowEmpty(w) == w.idt1 < w.idt0 \/ w.idRec1 < w.idRec0

\* The locals of a freq2time call that the checks read (the container it
\* wrote is in store).
Locals(run) ==
    IF run.outcome = "ok"
    THEN [outcome |-> "ok", line |-> 0, dims |-> run.dims,
          reconstructed |-> run.reconstructed, datafft |-> run.datafft]
    ELSE run

(***************************************************************************)
(* Inputs.                                                                 *)
(***************************************************************************)
Scenario == Arr(<<5, 10, 15, 20>>)

\* freqlist = fmin, fmin + d, ..., n entries.
UniformList(fmin, d, n) == [k \in 0..(n - 1) |-> fmin + k * d]

\* A list whose spacing changes after the second entry.
IrregularList(fmin, d) == Arr(<<fmin, fmin + d, fmin + 2 * d + 1>>)

\* Lowest frequencies q * d + r > 0, 0 <= r < d, at every spacing d.
FirstBins ==
    {c \in UNION {{[fmin |-> q * d + r, d |-> d] : q \in 0..MaxQ, r \in 0..(d - 1)} :
                    d \in 1..MaxDf} : c.fmin > 0}

FreqLists ==
    {UniformList(b.fmin, b.d, n) : b \in FirstBins, n \in 2..MaxNfreq}
    \cup {IrregularList(b.fmin, b.d) : b \in FirstBins}
    \cup {Scenario}

\* The lists the container protocol is exercised on: at the widest spacing,
\* one whose conversion raises and ones whose conversion succeeds.
ProtocolLists == {UniformList(q * MaxDf, MaxDf, 2) : q \in 1..MaxQ}

\* zsrc / zrec as the drivers build them: evenly spaced depths.
DepthArrays(n) == {[i \in 0..(k - 1) |-> 53 * i] : k \in 1..n}

\* Arbitrary depth arrays: unsorted, with repeated values.
AnyDepthArrays ==
    UNION {[0..(k - 1) -> 0..MaxDepth] : k \in 1..MaxDepthLen}

Names == {"seis"}

FcValues == {50, 100}

PeriodValues == {10}

PlotDepths == {0}

RecWindows == {<<0, 106>>}

TimeWindows == {<<0, 1000>>}

(***************************************************************************)
(* The operations of PltToy2dac.                                           *)
(***************************************************************************)
freq2time(fname, savename, fc, delay_n_period) ==
    LET run == Freq2TimeRun(freqlist, zsrc, zrec, fname, fc, delay_n_period)
    IN  /\ store' = StoreAfter(store, savename, run)
        /\ last' = [op |-> "freq2time", fname |-> fname, fh5 |-> savename,
                    fcArg |-> fc, nArg |-> delay_n_period] @@ Locals(run)
        /\ UNCHANGED <<freqlist, zsrc, zrec>>

plot_seismo(fname, fh5, zsrc_plot, zrec_plot, fc, delay_n_period) ==
    LET pre == Prelude(freqlist, zsrc, zrec, store, fname, fh5, fc, delay_n_period)
        hdr == [op |-> "plot_seismo", fname |-> fname, fh5 |-> fh5, fcArg |-> fc,
                nArg |-> delay_n_period, converted |-> pre.converted,
                zsrc_plot |-> zsrc_plot, zrec_plot |-> zrec_plot]
    IN  /\ store' = IF pre.outcome # "ok" THEN pre.store ELSE OpenRead(pre.store, fh5)
        /\ last' = IF pre.outcome # "ok"
                   THEN [outcome |-> pre.outcome, line |-> pre.line] @@ hdr
                   ELSE [outcome |-> "ok", line |-> 0,
                         read |-> ReadPlot(pre.store[fh5], TRUE),
                         idSrc |-> get_id(zsrc_plot, zsrc),
                         idRec |-> get_id(zrec_plot, zrec)] @@ hdr
        /\ UNCHANGED <<freqlist, zsrc, zrec>>

PlotWindowed(op, maxLine, fname, fh5, zsrc_plot, zrec_plot, t_plot, fc, delay_n_period) ==
    LET pre == Prelude(freqlist, zsrc, zrec, store, fname, fh5, fc, delay_n_period)
        hdr == [op |-> op, fname |-> fname, fh5 |-> fh5, fcArg |-> fc,
                nArg |-> delay_n_period, converted |-> pre.converted,
                zsrc_plot |-> zsrc_plot, zrec_plot |-> zrec_plot, t_plot |-> t_plot]
        rd  == ReadPlot(pre.store[fh5], FALSE)
        w   == Window(rd, zsrc, zrec, zsrc_plot, zrec_plot, t_plot)
    IN  /\ store' = IF pre.outcome # "ok" THEN pre.store ELSE OpenRead(pre.store, fh5)
        /\ last' = IF pre.outcome # "ok"
                   THEN [outcome |-> pre.outcome, line |-> pre.line] @@ hdr
                   ELSE [outcome |-> IF WindowEmpty(w) THEN "ValueError" ELSE "ok",
                         line |-> IF WindowEmpty(w) THEN maxLine ELSE 0,
                         read |-> rd, window |-> w] @@ hdr
        /\ UNCHANGED <<freqlist, zsrc, zrec>>

plot_gather(fname, fh5, zsrc_plot, zrec_plot, t_plot, fc, delay_n_period) ==
    PlotWindowed("plot_gather", 217, fname, fh5, zsrc_plot, zrec_plot, t_plot,
                 fc, delay_n_period)

plot_wiggle(fname, fh5, zsrc_plot, zrec_plot, t_plot, fc, delay_n_period) ==
    PlotWindowed("plot_wiggle", 285, fname, fh5, zsrc_plot, zrec_plot, t_plot,
                 fc, delay_n_period)

\* Lines 303-309: h5py.File(..., 'r') raises OSError when the file is absent.
SpecRead(st, fh5, ricker) ==
    IF ~st[fh5].exists THEN [outcome |-> "OSError", line |-> 305]
    ELSE [outcome |-> "ok", line |-> 0,
          trace |-> IF ricker THEN st[fh5].seismo_spec ELSE st[fh5].spectrum]

get_spec(fh5, ricker) ==
    /\ last' = [op |-> "get_spec", fh5 |-> fh5, ricker |-> ricker]
                  @@ SpecRead(store, fh5, ricker)
    /\ store' = IF store[fh5].exists THEN OpenRead(store, fh5) ELSE store
    /\ UNCHANGED <<freqlist, zsrc, zrec>>

get_spec_trace(fh5, zsrc_plot, zrec_plot, ricker) ==
    LET sp    == SpecRead(store, fh5, ricker)
        idSrc == get_id(zsrc_plot, zsrc)
        idRec == get_id(zrec_plot, zrec)
        hdr   == [op |-> "get_spec_trace", fh5 |-> fh5, ricker |-> ricker,
                  zsrc_plot |-> zsrc_plot, zrec_plot |-> zrec_plot]
    IN  /\ last' = IF sp.outcome # "ok"
                   THEN hdr @@ sp
                   ELSE [outcome |-> "ok", line |-> 0, idSrc |-> idSrc, idRec |-> idRec,
                         trace |-> [k \in DOMAIN sp.trace |-> sp.trace[k][idSrc][idRec]]]
                        @@ hdr
        /\ store' = IF store[fh5].exists THEN OpenRead(store, fh5) ELSE store
        /\ UNCHANGED <<freqlist, zsrc, zrec>>

\* A direct call of get_id on the source depths.
get_id_call(x) ==
    /\ last' = [op |-> "get_id", outcome |-> "ok", x |-> x, idx |-> get_id(x, zsrc)]
    /\ UNCHANGED <<freqlist, zsrc, zrec, store>>

(***************************************************************************)
(* Spec: the container protocol, every operation on a few frequency lists. *)
(***************************************************************************)
Init ==
    /\ freqlist \in ProtocolLists
    /\ zsrc \in DepthArrays(MaxSrc)
    /\ zrec \in DepthArrays(MaxRec)
    /\ store = [n \in Names |-> Absent]
    /\ last = [op |-> "init", outcome |-> "ok"]

Next ==
    \/ \E fname \in Files, fh5 \in Names, fc \in FcValues, n \in PeriodValues :
          freq2time(fname, fh5, fc, n)
    \/ \E fname \in Files, fh5 \in Names, fc \in FcValues, n \in PeriodValues,
          zs \in PlotDepths, zr \in PlotDepths :
          plot_seismo(fname, fh5, zs, zr, fc, n)
    \/ \E fname \in Files, fh5 \in Names, fc \in FcValues, n \in PeriodValues,
          zs \in PlotDepths, zr \in RecWindows, tp \in TimeWindows :
          plot_gather(fname, fh5, zs, zr, tp, fc, n)
    \/ \E fname \in Files, fh5 \in Names, fc \in FcValues, n \in PeriodValues,
          zs \in PlotDepths, zr \in RecWindows, tp \in TimeWindows :
          plot_wiggle(fname, fh5, zs, zr, tp, fc, n)
    \/ \E fh5 \in Names, ricker \in BOOLEAN : get_spec(fh5, ricker)
    \/ \E fh5 \in Names, ricker \in BOOLEAN, zs \in PlotDepths, zr \in PlotDepths :
          get_spec_trace(fh5, zs, zr, ricker)

Spec == Init /\ [][Next]_vars

(***************************************************************************)
(* SpecConvert: freq2time on every frequency list and tensor shape.        *)
(***************************************************************************)
InitConvert ==
    /\ freqlist \in FreqLists
    /\ zsrc \in DepthArrays(MaxSrc)
    /\ zrec \in DepthArrays(MaxRec)
    /\ store = [n \in Names |-> Absent]
    /\ last = [op |-> "init", outcome |-> "ok"]

NextConvert ==
    \E fname \in Files, fh5 \in Names, fc \in FcValues, n \in PeriodValues :
       freq2time(fname, fh5, fc, n)

SpecConvert == InitConvert /\ [][NextConvert]_vars

(***************************************************************************)
(* SpecLookup: the nearest-index lookups on arbitrary depth arrays.        *)
(***************************************************************************)
LookupDepths == 0..(MaxDepth + 1)

LookupTimeWindows == {<<0, 1000>>, <<-200, 40>>}

InitLookup ==
    /\ freqlist = UniformList(2, 1, 2)
    /\ zsrc \in AnyDepthArrays
    /\ zrec = [i \in 0..(MaxRec - 1) |-> 53 * i]
    /\ store = [n \in Names |-> Absent]
    /\ last = [op |-> "init", outcome |-> "ok"]

NextLookup ==
    \/ \E x \in LookupDepths : get_id_call(x)
    \/ \E zs \in LookupDepths, zr \in RecWindows, tp \in LookupTimeWindows :
          plot_gather("ramp", "seis", zs, zr, tp, 100, 10)
    \/ \E zs \in LookupDepths, zr \in PlotDepths :
          get_spec_trace("seis", zs, zr, TRUE)

SpecLookup == InitLookup /\ [][NextLookup]_vars

(***************************************************************************)
(* Vocabulary of the checks.                                               *)
(***************************************************************************)
Fmin == freqlist[0]

Fmax == ArrMax(freqlist)

Df == freqlist[1] - freqlist[0]

Uniform == \A k \in 1..(Size(freqlist) - 1) : freqlist[k] - freqlist[k - 1] = Df

Plots == {"plot_seismo", "plot_gather", "plot_wiggle"}

\* The last operation was freq2time and its input file was read and reshaped.
ConvertedInput ==
    /\ last.op = "freq2time"
    /\ read_seis(freqlist, zsrc, zrec, last.fname).outcome = "ok"

\* The tensor the last freq2time call read.
Dataf == read_seis(freqlist, zsrc, zrec, last.fname).seis

\* i is an index of arr nearest to x, and the first such index.
FirstNearest(i, x, arr) ==
    /\ i \in DOMAIN arr
    /\ \A j \in DOMAIN arr : Abs(x - arr[i]) <= Abs(x - arr[j])
    /\ \A j \in DOMAIN arr : j < i => Abs(x - arr[j]) > Abs(x - arr[i])

\* i is the first index at which the array of distances d is least.
FirstLeast(i, d) ==
    /\ i \in DOMAIN d
    /\ \A j \in DOMAIN d : d[i] <= d[j]
    /\ \A j \in DOMAIN d : j < i => d[j] > d[i]

(***************************************************************************)
(* C1 (as claimed).  freq2time on freqlist = [5, 10, 15, 20] and a unit    *)
(* spectrum completes, for every nsrc and nrec, and stores a seismo of     *)
(* length 9 with dt = 1/(5*8) = 1/40.                                      *)
(***************************************************************************)
C1_EndToEnd ==
    (last.op = "freq2time" /\ freqlist = Scenario /\ last.fname = "unit")
    => /\ last.outcome = "ok"
       /\ store[last.fh5].exists
       /\ Size(store[last.fh5].seismo) = 9
       /\ store[last.fh5].dt = [num |-> 1, den |-> 40]

(***************************************************************************)
(* C2 (as claimed).  On every uniformly spaced freqlist whose f_min is a   *)
(* positive multiple of df (f_min = df included) the reconstruction        *)
(* completes and datafft[(N - k) mod N] = conj(datafft[k]) for k in        *)
(* 1..Nhalf and every (source, receiver).                                  *)
(***************************************************************************)
C2_ConjugateSymmetry ==
    (ConvertedInput /\ Uniform /\ Fmin % Df = 0)
    => /\ last.outcome = "ok"
       /\ \A k \in 1..last.dims.Nhalf, s \in DOMAIN zsrc, r \in DOMAIN zrec :
             last.reconstructed[(last.dims.N - k) % last.dims.N][s][r]
                = Conj(last.reconstructed[k][s][r])

(***************************************************************************)
(* C3 (as claimed).  N = 1 + 2 * round(f_max / df): (N - 1) / 2 is an      *)
(* integer nearest to f_max / df.                                          *)
(***************************************************************************)
C3_RoundedLength ==
    ConvertedInput
    => \E m \in 0..Fmax : /\ last.dims.N = 1 + 2 * m
                          /\ 2 * Abs(m * Df - Fmax) <= Df

(***************************************************************************)
(* C3 (amended).  N = 1 + 2 * floor(f_max / df): (N - 1) / 2 is the        *)
(* integer m with m * df <= f_max < (m + 1) * df.                          *)
(***************************************************************************)
C3_TruncatedLength ==
    ConvertedInput
    => \E m \in 0..Fmax : /\ last.dims.N = 1 + 2 * m
                          /\ m * Df <= Fmax
                          /\ Fmax < (m + 1) * Df

\* freq2time computed N for a list whose f_max / df is nearer to the next
\* integer than to its floor.
C3_Witness == ConvertedInput /\ 2 * (Fmax % Df) > Df /\ last.dims.N = 1 + 2 * (Fmax \div Df)

(***************************************************************************)
(* C4 (as claimed).  Whenever freq2time builds the full spectrum of a      *)
(* uniformly spaced list, N is odd and the largest axis frequency is not   *)
(* below f_max.                                                            *)
(***************************************************************************)
C4_CoversBand ==
    (ConvertedInput /\ Uniform /\ last.outcome = "ok")
    => /\ last.dims.N % 2 = 1
       /\ ArrMax(last.dims.f) >= Fmax

(***************************************************************************)
(* C4 (amended).  Whenever freq2time builds the full spectrum of a         *)
(* uniformly spaced list, N is odd, the axis has N entries, and its        *)
(* largest frequency is df * floor(f_max / df): within df below f_max,     *)
(* and equal to f_max exactly when f_min is a multiple of df.              *)
(***************************************************************************)
C4_AxisTop ==
    (ConvertedInput /\ Uniform /\ last.outcome = "ok")
    => /\ last.dims.N % 2 = 1
       /\ Size(last.dims.f) = last.dims.N
       /\ ArrMax(last.dims.f) <= Fmax
       /\ Fmax - ArrMax(last.dims.f) < Df
       /\ (ArrMax(last.dims.f) = Fmax <=> Fmin % Df = 0)

\* A spectrum was built for a uniform list whose f_min is off the df grid.
C4_Witness ==
    /\ ConvertedInput /\ Uniform /\ last.outcome = "ok"
    /\ Fmin % Df # 0
    /\ ArrMax(last.dims.f) < Fmax

(***************************************************************************)
(* C5 (as claimed).  After the reconstruction and after the wavelet        *)
(* multiplication every index i with |f[i]| < f_min holds 0.               *)
(***************************************************************************)
C5_BelowFminZero ==
    (ConvertedInput /\ last.outcome = "ok")
    => \A i \in DOMAIN last.dims.f, s \in DOMAIN zsrc, r \in DOMAIN zrec :
          Abs(last.dims.f[i]) < Fmin
          => /\ last.reconstructed[i][s][r] = Zero
             /\ last.datafft[i][s][r] = Zero

(***************************************************************************)
(* C5 (amended).  After the reconstruction and after the wavelet           *)
(* multiplication every index i with |f[i]| < df * floor(f_min / df),      *)
(* the zero-frequency bin and the mirrored bins at the end of the array    *)
(* included, holds 0; the indices ind1..Nhalf hold the recorded samples    *)
(* and their mirrors the conjugates.                                       *)
(***************************************************************************)
C5_BelowFirstBinZero ==
    (ConvertedInput /\ last.outcome = "ok")
    => /\ \A i \in DOMAIN last.dims.f, s \in DOMAIN zsrc, r \in DOMAIN zrec :
             Abs(last.dims.f[i]) < Df * (Fmin \div Df)
             => /\ last.reconstructed[i][s][r] = Zero
                /\ last.datafft[i][s][r] = Zero
       /\ last.reconstructed[0] = [s \in DOMAIN zsrc |-> [r \in DOMAIN zrec |-> Zero]]
       /\ last.reconstructed[last.dims.N - 1]
             = [s \in DOMAIN zsrc |-> [r \in DOMAIN zrec |-> Zero]]
       /\ \A i \in last.dims.ind1..last.dims.Nhalf :
             /\ last.reconstructed[i] = Dataf[i - last.dims.ind1]
             /\ last.reconstructed[last.dims.N - i]
                   = ConjPlane(Dataf[i - last.dims.ind1])

\* A spectrum was built from non-zero data; it has unrecorded bins on both
\* sides of zero frequency.
C5_Witness ==
    /\ ConvertedInput /\ last.outcome = "ok"
    /\ last.dims.ind1 >= 2
    /\ last.reconstructed[last.dims.ind1][0][0] # Zero
    /\ last.reconstructed[1][0][0] = Zero

(***************************************************************************)
(* C9 (as claimed).  On every uniformly spaced freqlist whose f_min is     *)
(* not a multiple of df the reconstruction raises no error and recorded    *)
(* sample k sits at index floor(f_min / df) + k, its conjugate at the      *)
(* mirrored index, multiplied by the wavelet at df * (floor(f_min/df)+k).  *)
(***************************************************************************)
Placement ==
    LET first == Fmin \div Df
        N     == 1 + 2 * (Fmax \div Df)
    IN  \A k \in DOMAIN freqlist, s \in DOMAIN zsrc, r \in DOMAIN zrec :
           /\ last.reconstructed[first + k][s][r] = Dataf[k][s][r]
           /\ last.reconstructed[N - (first + k)][s][r] = Conj(Dataf[k][s][r])
           /\ last.datafft[first + k][s][r].ricker.f = Df * (first + k)
           /\ last.datafft[first + k][s][r].ricker.f # freqlist[k]
           /\ last.datafft[first + k][s][r].x = Dataf[k][s][r]

C9_SilentTruncation ==
    (ConvertedInput /\ Uniform /\ Fmin % Df # 0)
    => (last.outcome = "ok" /\ Placement)

(***************************************************************************)
(* C9 (amended).  On a uniformly spaced freqlist whose f_min is not a      *)
(* multiple of df: when floor(f_min / df) >= 2 the reconstruction raises   *)
(* no error and places the samples as claimed; when floor(f_min / df) is   *)
(* 0 or 1 the assignment of the conjugated half (line 130) raises          *)
(* ValueError and no container is written.                                 *)
(***************************************************************************)
C9_TruncatesOrRaises ==
    (ConvertedInput /\ Uniform /\ Fmin % Df # 0)
    => IF Fmin \div Df >= 2
       THEN last.outcome = "ok" /\ Placement
       ELSE last.outcome = "ValueError" /\ last.line = 130

\* A list off the df grid was converted without error.
C9_Witness ==
    /\ ConvertedInput /\ Uniform /\ Fmin % Df # 0
    /\ last.outcome = "ok"
    /\ last.fname = "ramp"

(***************************************************************************)
(* C6 (as claimed).  Once the container exists no operation, freq2time     *)
(* included, changes its contents.                                         *)
(***************************************************************************)
C6_WriteOnce ==
    [][\A n \in Names : store[n].exists => store'[n] = store[n]]_vars

(***************************************************************************)
(* C6 (amended).  Once the container exists, plot_seismo, plot_gather,     *)
(* plot_wiggle, get_spec and get_spec_trace never change its contents, nor *)
(* does a freq2time call that fails; a freq2time call that succeeds        *)
(* rewrites it with the fc and delay of that call.                         *)
(***************************************************************************)
C6_ReadersPreserve ==
    [][/\ \A n \in Names :
             store[n].exists
             => \/ store'[n] = store[n]
                \/ last'.op = "freq2time" /\ last'.outcome = "ok" /\ last'.fh5 = n
       /\ (last'.op = "freq2time" /\ last'.outcome = "ok")
          => /\ store'[last'.fh5].fc = last'.fcArg
             /\ store'[last'.fh5].delay = Frac(last'.nArg, last'.fcArg)]_vars

\* A spectrum reader ran on an existing container.
C6_Witness ==
    /\ last.op \in {"get_spec", "get_spec_trace"}
    /\ last.outcome = "ok"
    /\ store[last.fh5].exists

(***************************************************************************)
(* C7.  A plot call invokes freq2time only when <fh5>.h5 is absent; when   *)
(* the container exists the call leaves it unchanged and reads the stored  *)
(* seismo, dt and delay (plot_seismo also the stored fc), whatever fc and  *)
(* delay_n_period it was given.                                            *)
(***************************************************************************)
C7_CheckBeforeRegenerate ==
    [][last'.op \in Plots
       => /\ last'.converted => ~store[last'.fh5].exists
          /\ store[last'.fh5].exists
             => /\ store' = store
                /\ ~last'.converted
                /\ last'.read.seismo = store[last'.fh5].seismo
                /\ last'.read.dt = store[last'.fh5].dt
                /\ last'.read.delay = store[last'.fh5].delay
                /\ last'.op = "plot_seismo"
                   => /\ last'.outcome = "ok"
                      /\ last'.read.fc = store[last'.fh5].fc]_vars

\* A plot call given another fc than the stored one read the stored one.
C7_Witness ==
    /\ last.op = "plot_seismo"
    /\ last.outcome = "ok"
    /\ ~last.converted
    /\ last.fcArg # last.read.fc
    /\ last.read.fc = store[last.fh5].fc

(***************************************************************************)
(* C10.  When the conversion fails (input file missing, wrong element      *)
(* count, slice-assignment mismatch) the exception reaches the caller of   *)
(* freq2time or of the plot function, and datadir is unchanged: nothing    *)
(* is created, an existing container is not altered.  A plot call that     *)
(* finds the file absent attempts the conversion again.                    *)
(***************************************************************************)
C10_FailureLeavesStore ==
    [][/\ (/\ last'.op \in Plots \cup {"freq2time"}
           /\ last'.outcome \in {"FileNotFoundError", "ValueError"}
           /\ last'.line \in {70, 74, 129, 130})
          => store' = store
       /\ (last'.op \in Plots \cup {"freq2time"})
          => LET run == Freq2TimeRun(freqlist, zsrc, zrec, last'.fname,
                                     last'.fcArg, last'.nArg)
                 attempted == last'.op = "freq2time" \/ ~store[last'.fh5].exists
             IN  /\ last'.op \in Plots => (last'.converted <=> attempted)
                 /\ (attempted /\ run.outcome # "ok")
                    => /\ last'.outcome = run.outcome
                       /\ last'.line = run.line
                       /\ store' = store]_vars

\* A direct conversion failed on a name whose container already existed.
C10_Witness ==
    /\ last.op = "freq2time"
    /\ last.outcome = "FileNotFoundError"
    /\ store[last.fh5].exists

(***************************************************************************)
(* C8.  get_id(x, arr) is an index of an element nearest to x, the         *)
(* smallest such index; the depth and time-window lookups of the plot      *)
(* functions obey the same rule.                                           *)
(***************************************************************************)
C8_NearestFirst ==
    /\ last.op = "get_id" => FirstNearest(last.idx, last.x, zsrc)
    /\ (last.op = "get_spec_trace" /\ last.outcome = "ok")
       => /\ FirstNearest(last.idSrc, last.zsrc_plot, zsrc)
          /\ FirstNearest(last.idRec, last.zrec_plot, zrec)
    /\ (last.op = "plot_gather" /\ "window" \in DOMAIN last)
       => /\ FirstNearest(last.window.idSrc, last.zsrc_plot, zsrc)
          /\ FirstNearest(last.window.idRec0, last.zrec_plot[1], zrec)
          /\ FirstNearest(last.window.idRec1, last.zrec_plot[2], zrec)
          /\ FirstLeast(last.window.idt0,
                        TimeDistance(last.t_plot[1], Size(last.read.seismo),
                                     last.read.dt, last.read.delay))
          /\ FirstLeast(last.window.idt1,
                        TimeDistance(last.t_plot[2], Size(last.read.seismo),
                                     last.read.dt, last.read.delay))

\* get_id was called with two elements equally near, the second not first.
C8_Witness ==
    /\ last.op = "get_id"
    /\ \E j \in DOMAIN zsrc :
          /\ j > last.idx
          /\ Abs(last.x - zsrc[j]) = Abs(last.x - zsrc[last.idx])

====
